---- MODULE Spec2Model ----
(***************************************************************************)
(* Model of the Gutendex MCP server (gutendex_server_node/src/server.ts): *)
(* the session table, the SSE stream endpoint, the message endpoint, the  *)
(* per-session request handlers and the tool-call pipeline                *)
(* (searchInputParser -> gutendexFetch -> shaping -> response).           *)
(*                                                                         *)
(* The MCP SDK objects the server drives (SSEServerTransport, Server) are  *)
(* modelled at the calls server.ts makes on them:                          *)
(*   - new SSEServerTransport(...) carries a fresh sessionId;              *)
(*   - server.connect(transport) starts the stream or throws;              *)
(*   - the transport invokes transport.onclose when the stream closes and  *)
(*     when transport.close() is called, and server.close() closes the     *)
(*     transport;                                                          *)
(*   - transport.handlePostMessage answers 500 when the stream is not      *)
(*     established, otherwise reads the request body (a suspension point), *)
(*     answers 400 and reports onerror for an unreadable body, and         *)
(*     otherwise answers 202 and hands the message to the server;          *)
(*   - a request handler that throws yields an error response for that     *)
(*     request; a response is written to the stream only while the stream  *)
(*     is open.                                                            *)
(*                                                                         *)
(* The gutendex-search widget (src/gutendex-search/index.jsx and the       *)
(* variant with an in-flight reference) is modelled beside the server: its *)
(* component state, the page fetches it has started and their settling.    *)
(*                                                                         *)
(* Five specifications share the variables.  Spec is the whole server:     *)
(* module load (the widget template read from the assets directory, then   *)
(* listen), sessions opening and closing, POSTs of every kind.  CallSpec   *)
(* follows one tools/call of one open session through the same handlers    *)
(* over a wider range of argument bags and upstream responses.  HttpSpec   *)
(* is the request listener's routing over methods and request targets.     *)
(* WidgetSpec is the widget; WidgetFairSpec adds that a started fetch      *)
(* eventually settles.                                                     *)
(***************************************************************************)
EXTENDS Integers, Sequences, FiniteSets, TLC

\* ---------------------------------------------------------------- bounds
MaxSessions == 2
MaxPosts == 2
MaxCloseCalls == 2

\* ------------------------------------------------------- program constants
StatusMissingSessionId == 400
StatusUnknownSession == 404
StatusFailedToProcess == 500
StatusPreflight == 204
StatusNotFound == 404

ssePath == "/mcp"
postPath == "/mcp/messages"

VARIABLES
    sessions,     \* Map<string, SessionRecord>: session id -> [server, transport]
    nextId,       \* the next fresh transport.sessionId
    stream,       \* per transport: "none" | "open" | "failed" | "closed"
    closing,      \* the run of transport.onclose in progress, if any
    reqs,         \* the POSTs received on the message endpoint, in arrival order
    dispatched,   \* per session: request numbers in the order handed to its server
    lastDone,     \* the exchange the last step completed, as the client observes it
    phase,        \* the server process: "loading" | "listening" | "exited"
    registry,     \* widgets, widgetsById, widgetsByUri, tools, resources as built
    app           \* the search widget in a browser: its state and its fetches

vars == <<sessions, nextId, stream, closing, reqs, dispatched, lastDone,
          phase, registry, app>>

SessionIds == 1..MaxSessions

\* ------------------------------------------------------------ Map helpers
MapSet(m, k, v) == [x \in (DOMAIN m) \cup {k} |-> IF x = k THEN v ELSE m[x]]

MapDelete(m, k) == [x \in (DOMAIN m) \ {k} |-> m[x]]

MapHas(m, k) == k \in DOMAIN m

\* SessionRecord: the server and the transport created for one stream.
SessionRecord(id) == [server |-> id, transport |-> id]

\* ------------------------------------------------------ JavaScript values
\* A value is [t |-> its type, v |-> its content].  A string is the sequence
\* of its characters; a number is <<integer part, tenths>>; an array is a
\* sequence of values; an object is a function from its keys to values.
Undef == [t |-> "undefined", v |-> <<>>]

Null == [t |-> "null", v |-> <<>>]

Str(chars) == [t |-> "string", v |-> chars]

Num(whole, tenths) == [t |-> "number", v |-> <<whole, tenths>>]

Arr(items) == [t |-> "array", v |-> items]

Obj(fields) == [t |-> "object", v |-> fields]

\* x ?? d
Nullish(x) == x.t \in {"undefined", "null"}

Coalesce(x, d) == IF Nullish(x) THEN d ELSE x

\* o?.k and o.k on a non-nullish o: a missing key reads as undefined.
Get(o, k) == IF o.t = "object" /\ k \in DOMAIN o.v THEN o.v[k] ELSE Undef

\* String(v) and `${v}` of a string or of a number
String(x) ==
    IF x.t = "string" THEN x.v
    ELSE IF x.v[2] = 0 THEN <<ToString(x.v[1])>>
    ELSE <<ToString(x.v[1]), ".", ToString(x.v[2])>>

RECURSIVE TrimStart(_)
TrimStart(cs) ==
    IF cs # <<>> /\ Head(cs) = " " THEN TrimStart(Tail(cs)) ELSE cs

RECURSIVE TrimEnd(_)
TrimEnd(cs) ==
    IF cs # <<>> /\ cs[Len(cs)] = " "
    THEN TrimEnd(SubSeq(cs, 1, Len(cs) - 1))
    ELSE cs

Trim(cs) == TrimEnd(TrimStart(cs))

\* ------------------------------------------------------- searchInputParser
StringFields == {"search", "languages", "mime_type", "topic", "ids", "copyright"}

IntFields == {"author_year_start", "author_year_end", "page"}

Fields == StringFields \cup IntFields \cup {"sort", "pageUrl"}

SortEnum == {<<"popular">>, <<"ascending">>, <<"descending">>}

\* z.string().url(): the string parses as an absolute URL (scheme first).
IsUrl(cs) == cs # <<>> /\ Head(cs) \in {"https://", "http://"}

\* A schema that accepts any string as sort and any number as an integer.
FieldOk_Lax(f, x) ==
    \/ x.t = "undefined"
    \/ /\ f \in StringFields \cup {"sort"}
       /\ x.t = "string"
    \/ /\ f \in IntFields
       /\ x.t = "number"
    \/ /\ f = "pageUrl"
       /\ x.t = "string"
       /\ IsUrl(x.v)

\* Does value x pass the schema of field f?  Every field is optional.
FieldOk(f, x) ==
    \/ x.t = "undefined"
    \/ /\ f \in StringFields
       /\ x.t = "string"
    \/ /\ f \in IntFields
       /\ x.t = "number"
       /\ x.v[2] = 0
    \/ /\ f = "sort"
       /\ x.t = "string"
       /\ x.v \in SortEnum
    \/ /\ f = "pageUrl"
       /\ x.t = "string"
       /\ IsUrl(x.v)

\* The parsed value of an accepted field: string fields are trimmed.
FieldOut(f, x) ==
    IF f \in StringFields /\ x.t = "string" THEN Str(Trim(x.v)) ELSE x

\* searchInputParser.parse(bag): the parsed arguments, or the failing fields.
\* An argument bag is a function from the keys it carries to their values;
\* z.object drops the keys the schema does not declare.
Arg(bag, f) == IF f \in DOMAIN bag THEN bag[f] ELSE Undef

searchInputParser(bag) ==
    LET issues == {f \in Fields : ~FieldOk(f, Arg(bag, f))}
    IN  [ok |-> issues = {},
         issues |-> issues,
         data |-> [f \in (DOMAIN bag) \cap Fields |-> FieldOut(f, bag[f])]]

\* ------------------------------------------------------------ gutendexFetch
BaseUrl == <<"https://gutendex.com/books">>

ParamOrder ==
    <<"search", "languages", "author_year_start", "author_year_end",
      "mime_type", "topic", "ids", "copyright", "sort", "page">>

\* A set(k, v) that lets the empty string through.
SetSkips_KeepsEmpty(x) == Nullish(x)

\* set(k, v): skipped when v is undefined, null or "".
SetSkips(x) == Nullish(x) \/ (x.t = "string" /\ x.v = <<>>)

RECURSIVE SearchParams(_, _)
SearchParams(args, i) ==
    IF i > Len(ParamOrder) THEN <<>>
    ELSE LET k == ParamOrder[i]
             rest == SearchParams(args, i + 1)
         IN  IF SetSkips(Arg(args, k)) THEN rest
             ELSE <<[key |-> k, value |-> String(Arg(args, k))]>> \o rest

\* if (args.pageUrl): a non-empty string is truthy.
HasPageUrl(args) ==
    Arg(args, "pageUrl").t = "string" /\ Arg(args, "pageUrl").v # <<>>

\* A fetch that still appends the search parameters to a page URL.
FetchUrl_Merge(args) ==
    [base |-> IF HasPageUrl(args) THEN Arg(args, "pageUrl").v ELSE BaseUrl,
     params |-> SearchParams(args, 1)]

\* The URL gutendexFetch requests for the validated arguments.
FetchUrl(args) ==
    IF HasPageUrl(args)
    THEN [base |-> Arg(args, "pageUrl").v, params |-> <<>>]
    ELSE [base |-> BaseUrl, params |-> SearchParams(args, 1)]

\* An Error: its message and, for an upstream failure, the HTTP status.
Err(msg, status) == [msg |-> msg, status |-> status]

NoErr == Err("", 0)

\* A fetch that never looks at the status.
RespOk_Always(status) == TRUE

\* resp.ok
RespOk(status) == status \in 200..299

\* The outcome of gutendexFetch once the upstream response `up` has arrived:
\* the parsed payload, or the error thrown.
gutendexFetch(up) ==
    IF ~RespOk(up.status)
    THEN [ok |-> FALSE, error |-> Err("Gutendex request failed", up.status),
          parsed |-> FALSE, data |-> Undef]
    ELSE IF up.body.t = "text"
    THEN [ok |-> FALSE, error |-> Err("SyntaxError", 0),
          parsed |-> TRUE, data |-> Undef]
    ELSE [ok |-> TRUE, error |-> NoErr, parsed |-> TRUE, data |-> up.body]

\* ------------------------------------------------------------- the registry
\* The assets directory as the process finds it at start: whether it exists
\* and the files in it.  A file name is `component`.`ext` when tag = 0 and
\* `component`-`tag`.`ext` otherwise; the order of the tags is the order of
\* the names under Array.prototype.sort.
File(component, tag, ext, contents) ==
    [component |-> component, tag |-> tag, ext |-> ext, contents |-> contents]

Assets(exists, files) == [exists |-> exists, files |-> files]

\* What a call returns: a value, or nothing because it threw.
Returned(x) == [threw |-> FALSE, value |-> x]

Threw == [threw |-> TRUE, value |-> ""]

\* A loader that takes an empty or missing template for a template.
readWidgetHtml_Lenient(assets, componentName) ==
    LET direct == {f \in assets.files :
                      f.component = componentName /\ f.tag = 0 /\ f.ext = "html"}
    IN  IF direct # {}
        THEN Returned((CHOOSE f \in direct : TRUE).contents)
        ELSE Returned("")

readWidgetHtml(assets, componentName) ==
    IF ~assets.exists
    THEN Threw
    ELSE LET direct == {f \in assets.files :
                           /\ f.component = componentName
                           /\ f.tag = 0
                           /\ f.ext = "html"}
             candidates == {f \in assets.files :
                               /\ f.component = componentName
                               /\ f.tag > 0
                               /\ f.ext = "html"}
             fallback == CHOOSE f \in candidates :
                             \A g \in candidates : g.tag <= f.tag
             htmlContents ==
                 IF direct # {} THEN (CHOOSE f \in direct : TRUE).contents
                 ELSE IF candidates # {} THEN fallback.contents
                 ELSE ""
         IN  IF htmlContents = "" THEN Threw ELSE Returned(htmlContents)

\* The widget list as the module builds it once readWidgetHtml has returned
\* the template.
widgets ==
    <<[id |-> "gutendex-search",
       title |-> "Search Project Gutenberg",
       templateUri |-> "ui://widget/gutendex-search.html",
       invoking |-> "Searching Project Gutenberg",
       invoked |-> "Showing search results",
       html |-> "<gutendex-search.html>",
       responseText |-> "Rendered Project Gutenberg search results."]>>

widgetMeta(widget) ==
    [outputTemplate |-> widget.templateUri,
     invoking |-> widget.invoking,
     invoked |-> widget.invoked,
     widgetAccessible |-> TRUE,
     resultCanProduceWidget |-> TRUE]

\* widgetsById.get(id) and widgetsByUri.get(uri); both maps are filled from
\* `widgets`, a later widget replacing an earlier one with the same key.
WidgetIds == {widgets[i].id : i \in DOMAIN widgets}

WidgetUris == {widgets[i].templateUri : i \in DOMAIN widgets}

widgetsById(id) ==
    LET last == CHOOSE i \in DOMAIN widgets :
                    /\ widgets[i].id = id
                    /\ \A j \in DOMAIN widgets : widgets[j].id = id => j <= i
    IN  widgets[last]

widgetsByUri(uri) ==
    LET last == CHOOSE i \in DOMAIN widgets :
                    /\ widgets[i].templateUri = uri
                    /\ \A j \in DOMAIN widgets :
                           widgets[j].templateUri = uri => j <= i
    IN  widgets[last]

SearchToolName == "gutendex.books.search"

\* A tool catalog whose output template is written out by hand, under a uri
\* the widget list does not have.
tools_OwnTemplate ==
    <<[name |-> SearchToolName,
       title |-> "Search books",
       meta |-> [widgetMeta(widgetsById("gutendex-search")) EXCEPT
                    !.outputTemplate = "ui://widget/gutendex-books.html"]]>>

tools ==
    <<[name |-> SearchToolName,
       title |-> "Search books",
       meta |-> widgetMeta(widgetsById("gutendex-search"))]>>

resources ==
    [i \in DOMAIN widgets |->
        [uri |-> widgets[i].templateUri,
         name |-> widgets[i].title,
         mimeType |-> "text/html+skybridge",
         meta |-> widgetMeta(widgets[i])]]

\* The module-level constants the handlers read, as they stand once the
\* module is evaluated with the template `html`.
Registry(html) ==
    [widgets |-> [i \in DOMAIN widgets |-> [widgets[i] EXCEPT !.html = html]],
     widgetsById |-> [id \in WidgetIds |-> [widgetsById(id) EXCEPT !.html = html]],
     widgetsByUri |->
         [uri \in WidgetUris |-> [widgetsByUri(uri) EXCEPT !.html = html]],
     tools |-> tools,
     resources |-> resources]

\* Before the module is evaluated none of them exists.
NoRegistry ==
    [widgets |-> <<>>, widgetsById |-> <<>>, widgetsByUri |-> <<>>,
     tools |-> <<>>, resources |-> <<>>]

\* ------------------------------------------------------------ result shaping
\* Array.isArray(data?.results) ? data.results : []
ResultsOf(data) ==
    IF Get(data, "results").t = "array" THEN Get(data, "results").v ELSE <<>>

\* A shaper that keeps only the name of an author.
ShapeAuthor_NameOnly(a) == Get(a, "name")

ShapeAuthor(a) ==
    Obj([name |-> Get(a, "name"),
         birth_year |-> Coalesce(Get(a, "birth_year"), Null),
         death_year |-> Coalesce(Get(a, "death_year"), Null)])

\* A shaper that copies download_count and formats without their defaults.
ShapeBook_NoDefaults(b) ==
    LET authors == Get(b, "authors")
        languages == Get(b, "languages")
    IN  Obj([id |-> Get(b, "id"),
             title |-> Get(b, "title"),
             authors |->
                 IF authors.t = "array"
                 THEN Arr([i \in DOMAIN authors.v |-> ShapeAuthor(authors.v[i])])
                 ELSE Arr(<<>>),
             languages |-> IF languages.t = "array" THEN languages ELSE Arr(<<>>),
             download_count |-> Get(b, "download_count"),
             formats |-> Get(b, "formats")])

ShapeBook(b) ==
    LET authors == Get(b, "authors")
        languages == Get(b, "languages")
    IN  Obj([id |-> Get(b, "id"),
             title |-> Get(b, "title"),
             authors |->
                 IF authors.t = "array"
                 THEN Arr([i \in DOMAIN authors.v |-> ShapeAuthor(authors.v[i])])
                 ELSE Arr(<<>>),
             languages |-> IF languages.t = "array" THEN languages ELSE Arr(<<>>),
             download_count |-> Coalesce(Get(b, "download_count"), Num(0, 0)),
             formats |-> Coalesce(Get(b, "formats"), Obj(<<>>))])

\* b.id on a null or undefined record, a.name on a null or undefined author:
\* the property read throws a TypeError.
BookThrows(b) ==
    \/ Nullish(b)
    \/ /\ Get(b, "authors").t = "array"
       /\ \E i \in DOMAIN Get(b, "authors").v : Nullish(Get(b, "authors").v[i])

MapThrows(data) ==
    \E i \in DOMAIN ResultsOf(data) : BookThrows(ResultsOf(data)[i])

Mapped(data) ==
    [i \in DOMAIN ResultsOf(data) |-> ShapeBook(ResultsOf(data)[i])]

\* A count that is always the number of shaped records.
CountOf_Length(data) == Num(Len(Mapped(data)), 0)

\* data?.count ?? mapped.length
CountOf(data) == Coalesce(Get(data, "count"), Num(Len(Mapped(data)), 0))

\* A handler whose summary counts the records of the page.
ToolResult_PageCount(args, data) ==
    Obj([content |->
             <<[type |-> "text",
                text |-> <<"Found ">> \o String(Num(Len(Mapped(data)), 0))
                             \o <<" books">>]>>,
         structuredContent |->
             Obj([query |-> Obj(args),
                  count |-> CountOf(data),
                  next |-> Coalesce(Get(data, "next"), Null),
                  previous |-> Coalesce(Get(data, "previous"), Null),
                  results |-> Arr(Mapped(data))]),
         meta |-> widgetMeta(registry.widgetsById["gutendex-search"])])

\* The value returned by the CallTool handler for the parsed arguments and the
\* upstream payload.
ToolResult(args, data) ==
    Obj([content |->
             <<[type |-> "text",
                text |-> <<"Found ">> \o String(CountOf(data)) \o <<" books">>]>>,
         structuredContent |->
             Obj([query |-> Obj(args),
                  count |-> CountOf(data),
                  next |-> Coalesce(Get(data, "next"), Null),
                  previous |-> Coalesce(Get(data, "previous"), Null),
                  results |-> Arr(Mapped(data))]),
         meta |-> widgetMeta(registry.widgetsById["gutendex-search"])])

\* ------------------------------------------------------- request handlers
\* What a request handler has produced: a result, or the error it threw.
NoResp == [kind |-> "none", error |-> NoErr, result |-> Undef]

Result(x) == [kind |-> "result", error |-> NoErr, result |-> x]

Thrown(e) == [kind |-> "error", error |-> e, result |-> Undef]

\* ListTools handler
ListTools == Result(Obj([tools |-> registry.tools]))

\* A handler that answers with a metadata block of its own making.
ReadResource_OwnMeta(uri) ==
    IF uri \notin DOMAIN registry.widgetsByUri
    THEN Thrown(Err("Unknown resource", 0))
    ELSE LET widget == registry.widgetsByUri[uri]
         IN  Result(Obj([contents |->
                 <<[uri |-> widget.templateUri,
                    mimeType |-> "text/html+skybridge",
                    text |-> widget.html,
                    meta |-> [widgetMeta(widget) EXCEPT
                                 !.invoking = widget.title,
                                 !.invoked = widget.title]]>>]))

\* ReadResource handler
ReadResource(uri) ==
    IF uri \notin DOMAIN registry.widgetsByUri
    THEN Thrown(Err("Unknown resource", 0))
    ELSE LET widget == registry.widgetsByUri[uri]
         IN  Result(Obj([contents |->
                 <<[uri |-> widget.templateUri,
                    mimeType |-> "text/html+skybridge",
                    text |-> widget.html,
                    meta |-> widgetMeta(widget)]>>]))

\* A ListTools handler that hands its catalog over and keeps none.
RegistryAfter_Consumed(msg) ==
    IF msg.method = "tools/list" THEN [registry EXCEPT !.tools = <<>>]
    ELSE registry

\* The registry once the handler of `msg` has run: the handlers read the
\* module-level constants and assign to none of them.
RegistryAfter(msg) == registry

EmptyBag == <<>>

\* request.params.arguments ?? {}
ArgumentsOf(msg) == IF msg.hasArgs THEN msg.arguments ELSE EmptyBag

\* A handler that validates the arguments before it looks at the tool name.
CallToolStart_ParseFirst(msg) ==
    LET parse == searchInputParser(ArgumentsOf(msg))
    IN  IF ~parse.ok
        THEN [fetch |-> FALSE, resp |-> Thrown(Err("ZodError", 0)),
              args |-> EmptyBag, url |-> [base |-> <<>>, params |-> <<>>]]
        ELSE IF msg.name # SearchToolName
        THEN [fetch |-> FALSE, resp |-> Thrown(Err("Unknown tool", 0)),
              args |-> EmptyBag, url |-> [base |-> <<>>, params |-> <<>>]]
        ELSE [fetch |-> TRUE, resp |-> NoResp,
              args |-> parse.data, url |-> FetchUrl(parse.data)]

\* CallTool handler up to the upstream fetch: the error thrown before any
\* fetch, or the URL requested.
CallToolStart(msg) ==
    IF msg.name # SearchToolName
    THEN [fetch |-> FALSE, resp |-> Thrown(Err("Unknown tool", 0)),
          args |-> EmptyBag, url |-> [base |-> <<>>, params |-> <<>>]]
    ELSE LET parse == searchInputParser(ArgumentsOf(msg))
         IN  IF ~parse.ok
             THEN [fetch |-> FALSE, resp |-> Thrown(Err("ZodError", 0)),
                   args |-> EmptyBag, url |-> [base |-> <<>>, params |-> <<>>]]
             ELSE [fetch |-> TRUE, resp |-> NoResp,
                   args |-> parse.data, url |-> FetchUrl(parse.data)]

\* CallTool handler from the upstream response on: the response, whether
\* resp.json() was called (parsed) and whether the shaping code ran (shaped).
CallToolFinish(args, up) ==
    LET got == gutendexFetch(up)
    IN  IF ~got.ok
        THEN [resp |-> Thrown(got.error), parsed |-> got.parsed, shaped |-> FALSE]
        ELSE IF MapThrows(got.data)
        THEN [resp |-> Thrown(Err("TypeError", 0)), parsed |-> TRUE,
              shaped |-> TRUE]
        ELSE [resp |-> Result(ToolResult(args, got.data)), parsed |-> TRUE,
              shaped |-> TRUE]

\* ------------------------------------------------------------------ inputs
\* Request lines a client sends.
Methods == {"GET", "POST", "OPTIONS", "DELETE"}

Targets ==
    {<<"/mcp">>, <<"/mcp/messages">>, <<"/mcp/messages", "?", "sessionId=1">>,
     <<"/assets">>, <<"//">>}

\* Argument bags a client sends with a tools/call request.
ArgBags ==
    <<[sort |-> Str(<<"sideways">>)],
      [page |-> Num(1, 5)],
      [pageUrl |-> Str(<<"https://", "gutendex.com/books?page=2">>),
       search |-> Str(<<" ", "alice", " ">>)]>>

Msg(method, name, uri, hasArgs, arguments) ==
    [method |-> method, name |-> name, uri |-> uri, hasArgs |-> hasArgs,
     arguments |-> arguments]

NoMsg == Msg("none", "", "", FALSE, EmptyBag)

\* Request messages a client posts.
Messages ==
    <<Msg("tools/list", "", "", FALSE, EmptyBag),
      Msg("resources/read", "", "ui://widget/gutendex-search.html", FALSE, EmptyBag),
      Msg("resources/read", "", "ui://widget/other.html", FALSE, EmptyBag),
      Msg("tools/call", "other.tool", "", FALSE, EmptyBag),
      Msg("tools/call", "other.tool", "", TRUE, ArgBags[1]),
      Msg("tools/call", SearchToolName, "", FALSE, EmptyBag)>>
    \o [i \in DOMAIN ArgBags |->
           Msg("tools/call", SearchToolName, "", TRUE, ArgBags[i])]

AliceBook ==
    Obj([id |-> Num(11, 0),
         title |-> Str(<<"Alice's Adventures">>),
         authors |-> Arr(<<Obj([name |-> Str(<<"Carroll, Lewis">>)])>>),
         languages |-> Arr(<<Str(<<"en">>)>>),
         download_count |-> Num(500, 0),
         formats |-> Obj([html |-> Str(<<"http://x/11.html">>)])])

\* Responses of the upstream service: status and body (JSON or other text).
Upstreams ==
    <<[status |-> 200,
       body |-> Obj([count |-> Num(1, 0), next |-> Null, previous |-> Null,
                     results |-> Arr(<<AliceBook>>)])],
      [status |-> 200, body |-> [t |-> "text", v |-> <<"<html>">>]],
      [status |-> 503, body |-> Obj([detail |-> Str(<<"Service Unavailable">>)])]>>

\* ---------------------------------------------------------- state machine
NoUrl == [base |-> <<>>, params |-> <<>>]

\* A POST in progress on the message endpoint.
\*   pc        "reading": inside transport.handlePostMessage, body not read
\*             "fetching": CallTool handler suspended at the upstream fetch
\*             "done": answered, nothing pending
\*   sid       the sessionId parameter of the POST
\*   to        the transport whose handlePostMessage was called (0: none)
\*   streamAt  the state of the addressed session's stream at arrival
\*   msg       the message, once the body is read
\*   args      the validated arguments of a tool call
\*   url       the URL gutendexFetch requests
\*   gets      upstream GETs issued for this request
LiveReq(pc, sid, to, streamAt) ==
    [pc |-> pc, sid |-> sid, to |-> to, streamAt |-> streamAt,
     msg |-> NoMsg, args |-> EmptyBag, url |-> NoUrl, gets |-> 0]

DoneReq == LiveReq("done", 0, 0, "none")

\* A completed exchange.
\*   event     "none": the step completed no exchange
\*             "post": handlePostMessage answered the POST itself
\*             "unreadable": the transport refused the body and called onerror
\*             "response": a request handler finished
\*   sid       the sessionId parameter of the POST (hasId FALSE: missing)
\*   streamAt  the state of the addressed session's stream when the POST arrived
\*   status    the HTTP status answered to the POST
\*   to        the transport the message was handed to (0: none)
\*   gets      upstream GETs issued for the request
\*   upstream  the status of the upstream response; payload: its body
\*   parsed    resp.json() was called; shaped: the shaping code ran
\*   late      the stream was no longer open when the upstream fetch returned
\*   written   the response was written to the session's stream
\*   method, target   the request line of a request the listener answers itself
\*   headers, body    the headers and the body of that answer
Exchange(event, hasId, sid, streamAt, status, to) ==
    [event |-> event, hasId |-> hasId, sid |-> sid,
     streamAt |-> streamAt, status |-> status, to |-> to, msg |-> NoMsg,
     args |-> EmptyBag, url |-> NoUrl, gets |-> 0, fetched |-> FALSE,
     upstream |-> 0, payload |-> Undef, parsed |-> FALSE, shaped |-> FALSE,
     resp |-> NoResp,
     late |-> FALSE, written |-> FALSE,
     method |-> "", target |-> <<>>, headers |-> <<>>, body |-> ""]

NoExchange == Exchange("none", FALSE, 0, "none", 0, 0)

\* The widget runs in the browser of a client, not in the server process.
NoApp == [mounted |-> FALSE]

\* The process has started and the module is about to be evaluated.
Init ==
    /\ phase = "loading"
    /\ registry = NoRegistry
    /\ app = NoApp
    /\ sessions = <<>>
    /\ nextId = 1
    /\ stream = [i \in SessionIds |-> "none"]
    /\ closing = [running |-> FALSE, sessionId |-> 0, calls |-> 0]
    /\ reqs = <<>>
    /\ dispatched = [i \in SessionIds |-> <<>>]
    /\ lastDone = NoExchange

\* An upstream fetch that occupies the server until it returns.
Idle_BlockingFetch ==
    /\ phase = "listening"
    /\ ~closing.running
    /\ \A r \in DOMAIN reqs : reqs[r].pc # "fetching"

\* The process is serving and no handler is running: handlers run to
\* completion, so a request or an event is taken up only between them; a
\* handler suspended at an await is not running.
Idle == phase = "listening" /\ ~closing.running

\* The assets directory at process start.
WidgetHtml == "<gutendex-search.html>"

AssetCases ==
    <<Assets(FALSE, {}),
      Assets(TRUE, {}),
      Assets(TRUE, {File("gutendex-search", 0, "html", WidgetHtml),
                    File("gutendex-search", 1, "html", "<stale.html>"),
                    File("gutendex-search", 0, "js", "<script>")}),
      Assets(TRUE, {File("gutendex-search", 1, "html", "<stale.html>"),
                    File("gutendex-search", 2, "html", WidgetHtml),
                    File("gutendex-search", 3, "js", "<script>")}),
      Assets(TRUE, {File("gutendex-search", 0, "html", ""),
                    File("gutendex-search", 2, "html", WidgetHtml)}),
      Assets(TRUE, {File("gutendex-search", 2, "js", "<script>"),
                    File("gutendex-books", 0, "html", "<books.html>")})>>

\* The module is evaluated from its first statement to httpServer.listen:
\* the widget list reads its template, and an exception on the way ends the
\* process before the listener exists.  listenOk: whether the port can be
\* bound; a failure to bind is an unhandled 'error' event.
ModuleLoad(a, listenOk) ==
    /\ phase = "loading"
    /\ LET html == readWidgetHtml(AssetCases[a], "gutendex-search")
       IN  IF html.threw
           THEN /\ phase' = "exited"
                /\ registry' = registry
           ELSE /\ registry' = Registry(html.value)
                /\ phase' = IF listenOk THEN "listening" ELSE "exited"
    /\ lastDone' = NoExchange
    /\ UNCHANGED <<sessions, nextId, stream, closing, reqs, dispatched, app>>

\* A close handler that forgets sessions.delete(sessionId).
OnClose_NoDelete(table, sessionId) == table

\* A close handler that empties the session table.
OnClose_Clear(table, sessionId) == <<>>

\* transport.onclose: sessions.delete(sessionId), then server.close()
OnClose(table, sessionId) == MapDelete(table, sessionId)

\* transport.onerror: console.error only
OnError(table, sessionId) == table

\* GET /mcp.  connectOk: whether server.connect(transport) resolves or throws.
handleSseRequest(connectOk) ==
    /\ Idle
    /\ nextId <= MaxSessions
    /\ LET sessionId == nextId
           registered == MapSet(sessions, sessionId, SessionRecord(sessionId))
       IN  /\ sessions' = IF connectOk THEN registered
                          ELSE MapDelete(registered, sessionId)
           /\ stream' = [stream EXCEPT
                            ![sessionId] = IF connectOk THEN "open" ELSE "failed"]
    /\ nextId' = nextId + 1
    /\ lastDone' = NoExchange
    /\ UNCHANGED <<closing, reqs, dispatched, phase, registry, app>>

\* The stream of an open session closes: the transport invokes onclose, which
\* deletes the entry and calls server.close().
StreamCloses(sessionId) ==
    /\ Idle
    /\ stream[sessionId] = "open"
    /\ stream' = [stream EXCEPT ![sessionId] = "closed"]
    /\ sessions' = OnClose(sessions, sessionId)
    /\ closing' = [running |-> TRUE, sessionId |-> sessionId, calls |-> 1]
    /\ lastDone' = NoExchange
    /\ UNCHANGED <<nextId, reqs, dispatched, phase, registry, app>>

\* server.close() inside onclose closes the transport, which invokes onclose
\* again before the first invocation has returned: the handler runs once more
\* and calls server.close() once more.
OnCloseAgain ==
    /\ closing.running
    /\ closing.calls < MaxCloseCalls
    /\ sessions' = OnClose(sessions, closing.sessionId)
    /\ closing' = [closing EXCEPT !.calls = @ + 1]
    /\ lastDone' = NoExchange
    /\ UNCHANGED <<nextId, stream, reqs, dispatched, phase, registry, app>>

\* The nested invocations of onclose come to an end (the call stack is
\* exhausted) and unwind.
OnCloseUnwinds ==
    /\ closing.running
    /\ closing.calls = MaxCloseCalls
    /\ closing' = [running |-> FALSE, sessionId |-> 0, calls |-> 0]
    /\ lastDone' = NoExchange
    /\ UNCHANGED <<sessions, nextId, stream, reqs, dispatched, phase, registry, app>>

\* The stream state of the session a POST names.
StreamOf(hasId, sid) ==
    IF hasId /\ sid \in SessionIds THEN stream[sid] ELSE "none"

\* POST /mcp/messages[?sessionId=sid]
handlePostMessage(hasId, sid) ==
    /\ Idle
    /\ Len(reqs) < MaxPosts
    /\ LET at == StreamOf(hasId, sid)
       IN  IF ~hasId
           THEN /\ reqs' = Append(reqs, DoneReq)
                /\ lastDone' = Exchange("post", hasId, sid, at,
                                    StatusMissingSessionId, 0)
           ELSE IF ~MapHas(sessions, sid)
           THEN /\ reqs' = Append(reqs, DoneReq)
                /\ lastDone' = Exchange("post", hasId, sid, at,
                                    StatusUnknownSession, 0)
           ELSE IF stream[sessions[sid].transport] # "open"
           THEN /\ reqs' = Append(reqs, DoneReq)
                /\ lastDone' = Exchange("post", hasId, sid, at,
                                    StatusFailedToProcess, 0)
           ELSE /\ reqs' = Append(reqs,
                               LiveReq("reading", sid, sessions[sid].transport, at))
                /\ lastDone' = NoExchange
    /\ UNCHANGED <<sessions, nextId, stream, closing, dispatched, phase, registry, app>>

\* new URL(req.url, base).pathname.  A request target is the sequence of its
\* parts: the path, then "?" and the query when there is one.  A target
\* whose path is "//" has an empty host and no URL: the constructor throws.
UrlOf(target) ==
    IF target[1] = "//" THEN Threw ELSE Returned(target[1])

\* The branch of the request listener that takes the request.
Route(method, target) ==
    LET url == UrlOf(target)
    IN  IF url.threw THEN "throws"
        ELSE IF method = "OPTIONS" /\ url.value \in {ssePath, postPath}
        THEN "preflight"
        ELSE IF method = "GET" /\ url.value = ssePath THEN "sse"
        ELSE IF method = "POST" /\ url.value = postPath THEN "post"
        ELSE "not found"

\* The request line and the answer of a request the listener answers itself.
Answer(method, target, status, headers, body) ==
    [Exchange("http", FALSE, 0, "none", status, 0)
        EXCEPT !.method = method, !.target = target, !.headers = headers,
               !.body = body]

\* A preflight answer that reflects nothing and allows nothing.
PreflightHeaders_None == <<>>

PreflightHeaders ==
    ("Access-Control-Allow-Origin" :> "*")
    @@ ("Access-Control-Allow-Methods" :> "GET, POST, OPTIONS")
    @@ ("Access-Control-Allow-Headers" :> "content-type")

\* OPTIONS on the stream path or the message path: 204, the three headers,
\* res.end() without a body.
Preflight(method, target) ==
    /\ Idle
    /\ Route(method, target) = "preflight"
    /\ lastDone' = Answer(method, target, StatusPreflight, PreflightHeaders, "")
    /\ UNCHANGED <<sessions, nextId, stream, closing, reqs, dispatched, phase,
                   registry, app>>

\* No branch of the listener takes the request: 404 "Not Found".
NotFound(method, target) ==
    /\ Idle
    /\ Route(method, target) = "not found"
    /\ lastDone' = Answer(method, target, StatusNotFound, <<>>, "Not Found")
    /\ UNCHANGED <<sessions, nextId, stream, closing, reqs, dispatched, phase,
                   registry, app>>

\* new URL throws inside the async listener: its promise is rejected and no
\* one handles the rejection.  Nothing is written to the response; the
\* runtime either ends the process on the unhandled rejection (exits) or
\* only warns, by its version and flags.
BadTarget(method, target, exits) ==
    /\ Idle
    /\ Route(method, target) = "throws"
    /\ phase' = IF exits THEN "exited" ELSE phase
    /\ lastDone' = Answer(method, target, 0, <<>>, "")
    /\ UNCHANGED <<sessions, nextId, stream, closing, reqs, dispatched,
                   registry, app>>

\* The response the server of a request hands to its transport: written only
\* while the stream is open.
CanWrite(t) == stream[t] = "open"

\* transport.handlePostMessage cannot read the body of request r as a
\* message: it answers 400 and reports the error through transport.onerror.
BodyUnreadable(r) ==
    /\ Idle
    /\ r \in DOMAIN reqs
    /\ reqs[r].pc = "reading"
    /\ LET t == reqs[r].to
       IN  /\ reqs' = [reqs EXCEPT ![r] = DoneReq]
           /\ sessions' = OnError(sessions, t)
           /\ lastDone' = Exchange("unreadable", TRUE, reqs[r].sid,
                                       reqs[r].streamAt, 400, t)
    /\ UNCHANGED <<nextId, stream, closing, dispatched, phase, registry, app>>

\* transport.handlePostMessage has read the body of request r: it answers 202
\* and hands the message to the session's server, whose handler runs up to
\* its first suspension point.
Handle(r, msg) ==
    /\ Idle
    /\ r \in DOMAIN reqs
    /\ reqs[r].pc = "reading"
    /\ LET t == reqs[r].to
           call == CallToolStart(msg)
           resp == IF msg.method = "tools/list" THEN ListTools
                   ELSE IF msg.method = "resources/read" THEN ReadResource(msg.uri)
                   ELSE call.resp
           fetch == msg.method = "tools/call" /\ call.fetch
       IN  /\ dispatched' = [dispatched EXCEPT ![t] = Append(@, r)]
           /\ IF fetch
              THEN /\ reqs' = [reqs EXCEPT ![r] =
                          [@ EXCEPT !.pc = "fetching", !.msg = msg,
                                    !.args = call.args, !.url = call.url,
                                    !.gets = @ + 1]]
                   /\ lastDone' = NoExchange
              ELSE /\ reqs' = [reqs EXCEPT ![r] = DoneReq]
                   /\ lastDone' = [Exchange("response", TRUE, reqs[r].sid,
                                        reqs[r].streamAt, 202, t)
                                  EXCEPT !.msg = msg,
                                         !.resp = resp,
                                         !.written = CanWrite(t)]
    /\ registry' = RegistryAfter(msg)
    /\ UNCHANGED <<sessions, nextId, stream, closing, phase, app>>

\* The body of request r is read as message m.
BodyRead(r, m) == Handle(r, Messages[m])

\* The upstream response `up` arrives for request r, suspended at its fetch:
\* the CallTool handler runs to its end.
Resume(r, up) ==
    /\ Idle
    /\ r \in DOMAIN reqs
    /\ reqs[r].pc = "fetching"
    /\ LET t == reqs[r].to
           fin == CallToolFinish(reqs[r].args, up)
       IN  /\ reqs' = [reqs EXCEPT ![r] = DoneReq]
           /\ lastDone' = [Exchange("response", TRUE, reqs[r].sid,
                                    reqs[r].streamAt, 202, t)
                          EXCEPT !.msg = reqs[r].msg,
                                 !.args = reqs[r].args,
                                 !.url = reqs[r].url,
                                 !.gets = reqs[r].gets,
                                 !.fetched = TRUE,
                                 !.upstream = up.status,
                                 !.payload = up.body,
                                 !.parsed = fin.parsed,
                                 !.shaped = fin.shaped,
                                 !.resp = fin.resp,
                                 !.late = ~CanWrite(t),
                                 !.written = CanWrite(t)]
    /\ UNCHANGED <<sessions, nextId, stream, closing, dispatched, phase, registry, app>>

\* A handler whose failure also drops the session of the request.
FetchReturns_TearsDown(r, u) ==
    /\ Idle
    /\ r \in DOMAIN reqs
    /\ reqs[r].pc = "fetching"
    /\ LET t == reqs[r].to
           fin == CallToolFinish(reqs[r].args, Upstreams[u])
       IN  /\ reqs' = [reqs EXCEPT ![r] = DoneReq]
           /\ sessions' = IF fin.resp.kind = "error"
                          THEN MapDelete(sessions, t) ELSE sessions
           /\ lastDone' = [Exchange("response", TRUE, reqs[r].sid,
                                    reqs[r].streamAt, 202, t)
                          EXCEPT !.msg = reqs[r].msg,
                                 !.fetched = TRUE,
                                 !.upstream = Upstreams[u].status,
                                 !.resp = fin.resp,
                                 !.written = CanWrite(t)]
    /\ UNCHANGED <<nextId, stream, closing, dispatched, phase, registry, app>>

\* A handler that repeats the GET once when the upstream request has failed.
FetchReturns_Retries(r, u) ==
    IF /\ r \in DOMAIN reqs
       /\ reqs[r].pc = "fetching"
       /\ reqs[r].gets < 2
       /\ ~gutendexFetch(Upstreams[u]).ok
    THEN /\ Idle
         /\ reqs' = [reqs EXCEPT ![r].gets = @ + 1]
         /\ lastDone' = NoExchange
         /\ UNCHANGED <<sessions, nextId, stream, closing, dispatched, phase,
                        registry, app>>
    ELSE Resume(r, Upstreams[u])

\* Upstream response u arrives for request r.
FetchReturns(r, u) == Resume(r, Upstreams[u])

Next ==
    \/ \E a \in DOMAIN AssetCases, listenOk \in BOOLEAN : ModuleLoad(a, listenOk)
    \/ \E connectOk \in BOOLEAN : handleSseRequest(connectOk)
    \/ \E sessionId \in SessionIds : StreamCloses(sessionId)
    \/ OnCloseAgain
    \/ OnCloseUnwinds
    \/ handlePostMessage(FALSE, 0)
    \/ \E sid \in 1..(MaxSessions + 1) : handlePostMessage(TRUE, sid)
    \/ \E r \in 1..MaxPosts : BodyUnreadable(r)
    \/ \E r \in 1..MaxPosts, m \in DOMAIN Messages : BodyRead(r, m)
    \/ \E r \in 1..MaxPosts, u \in DOMAIN Upstreams : FetchReturns(r, u)

Spec == Init /\ [][Next]_vars

\* ------------------------------------------------- the request listener
\* Every branch of the request listener over every request line, with
\* sessions opening and closing and POSTs arriving in between.  The bodies
\* of the POSTs are not read here: Spec follows them.
HttpNext ==
    \/ \E a \in DOMAIN AssetCases, listenOk \in BOOLEAN : ModuleLoad(a, listenOk)
    \/ \E connectOk \in BOOLEAN : handleSseRequest(connectOk)
    \/ \E sessionId \in SessionIds : StreamCloses(sessionId)
    \/ OnCloseAgain
    \/ OnCloseUnwinds
    \/ handlePostMessage(FALSE, 0)
    \/ \E sid \in 1..(MaxSessions + 1) : handlePostMessage(TRUE, sid)
    \/ \E method \in Methods, target \in Targets : Preflight(method, target)
    \/ \E method \in Methods, target \in Targets : NotFound(method, target)
    \/ \E method \in Methods, target \in Targets, exits \in BOOLEAN :
           BadTarget(method, target, exits)

HttpSpec == Init /\ [][HttpNext]_vars

\* ------------------------------------------------- one tool call, in depth
\* The tool-call pipeline of one session followed from the arrival of the
\* message to the response, over a wider range of argument bags and upstream
\* responses than Spec carries.
PageTwo == Str(<<"https://", "gutendex.com/books?page=2">>)

PageThree == Str(<<"https://", "gutendex.com/books?page=3&search=alice">>)

\* Argument bags of a tools/call request for the search tool.
CallBags ==
    <<[search |-> Str(<<"alice">>)],
      [search |-> Str(<<" ", "alice", " ">>)],
      [search |-> Str(<<" ", " ">>)],
      [search |-> Str(<<>>), topic |-> Str(<<"children">>)],
      [languages |-> Str(<<"en,fr">>), author_year_start |-> Num(1800, 0),
       author_year_end |-> Num(1900, 0), mime_type |-> Str(<<"text/html">>),
       topic |-> Str(<<"children">>), ids |-> Str(<<"11,12">>),
       copyright |-> Str(<<"false">>), sort |-> Str(<<"popular">>),
       page |-> Num(2, 0)],
      [page |-> Num(0, 0), sort |-> Str(<<"descending">>)],
      [limit |-> Num(5, 0), topic |-> Str(<<"children">>)],
      [pageUrl |-> PageTwo],
      [pageUrl |-> PageTwo, search |-> Str(<<"alice">>), page |-> Num(3, 0),
       sort |-> Str(<<"ascending">>)],
      [pageUrl |-> PageThree, search |-> Str(<<"alice">>)],
      [pageUrl |-> PageTwo, sort |-> Str(<<"sideways">>)],
      [pageUrl |-> PageTwo, page |-> Num(1, 5)],
      [pageUrl |-> Str(<<"books?page=2">>)],
      [pageUrl |-> Str(<<>>), search |-> Str(<<"alice">>)],
      [search |-> Null]>>

CallMessage(b) == Msg("tools/call", SearchToolName, "", TRUE, CallBags[b])

BareBook == Obj([id |-> Num(12, 0)])

DatedBook ==
    Obj([id |-> Num(13, 0),
         title |-> Str(<<"Emma">>),
         authors |-> Arr(<<Obj([name |-> Str(<<"Austen, Jane">>),
                                birth_year |-> Num(1775, 0),
                                death_year |-> Num(1817, 0)]),
                           Obj([name |-> Str(<<"Anonymous">>),
                                birth_year |-> Null])>>),
         languages |-> Arr(<<Str(<<"en">>), Str(<<"fr">>)>>),
         download_count |-> Num(0, 0),
         formats |-> Obj(<<>>)])

OddBook ==
    Obj([id |-> Num(14, 0),
         authors |-> Str(<<"Carroll, Lewis">>),
         languages |-> Str(<<"en">>),
         download_count |-> Null,
         formats |-> Null])

JsonOk(body) == [status |-> 200, body |-> body]

\* Responses of the upstream service to the GET of one tool call.
CallUpstreams ==
    <<JsonOk(Obj([count |-> Num(1, 0), next |-> Null, previous |-> Null,
                  results |-> Arr(<<AliceBook>>)])),
      JsonOk(Obj([count |-> Num(77, 0), next |-> PageThree, previous |-> PageTwo,
                  results |-> Arr(<<AliceBook, BareBook, DatedBook>>)])),
      JsonOk(Obj([results |-> Arr(<<DatedBook, OddBook>>)])),
      JsonOk(Obj(<<>>)),
      JsonOk(Obj([count |-> Num(5, 0)])),
      JsonOk(Obj([count |-> Null, next |-> PageThree])),
      JsonOk(Obj([count |-> Num(3, 0), results |-> Str(<<"none">>)])),
      JsonOk(Null),
      JsonOk(Arr(<<AliceBook>>)),
      JsonOk(Obj([count |-> Num(1, 0), results |-> Arr(<<Null>>)])),
      JsonOk(Obj([results |-> Arr(<<Obj([id |-> Num(15, 0),
                                         authors |-> Arr(<<Null>>)])>>)])),
      JsonOk([t |-> "text", v |-> <<"<html>">>]),
      [status |-> 404, body |-> Obj([detail |-> Str(<<"No Book matches.">>)])]>>

\* Session 1 is open and a POST addressed to it has arrived.
CallInit ==
    /\ phase = "listening"
    /\ registry = Registry(WidgetHtml)
    /\ app = NoApp
    /\ sessions = MapSet(<<>>, 1, SessionRecord(1))
    /\ nextId = 2
    /\ stream = [i \in SessionIds |-> IF i = 1 THEN "open" ELSE "none"]
    /\ closing = [running |-> FALSE, sessionId |-> 0, calls |-> 0]
    /\ reqs = <<LiveReq("reading", 1, 1, "open")>>
    /\ dispatched = [i \in SessionIds |-> <<>>]
    /\ lastDone = NoExchange

\* The body of the POST is read as a tools/call carrying bag b.
CallArrives(b) == Handle(1, CallMessage(b))

\* The upstream service answers the GET of the call with response p.
CallReturns(p) == Resume(1, CallUpstreams[p])

CallNext ==
    \/ \E b \in DOMAIN CallBags : CallArrives(b)
    \/ \E p \in DOMAIN CallUpstreams : CallReturns(p)

CallSpec == CallInit /\ [][CallNext]_vars

\* -------------------------------------------------------------- the widget
\* The search widget (src/gutendex-search/index.jsx) as it runs in a browser:
\* the state of the App component and the fetches it has started.  The
\* repository holds the component that paginates by fetch in two versions:
\* "index.jsx" (index.jsx, App at 181-304) and "part_000" (the same component
\* with an AbortController and a loading guard).  React renders after every
\* event handler and after every state update, so the handlers of a step
\* read the state the step before it left.
MaxLive == 2

Builds == {"index.jsx", "part_000"}

\* !x for the values a page link takes
Falsy(x) == Nullish(x) \/ x = Str(<<>>)

\* a => ({name, birth_year ?? null, death_year ?? null})
PageAuthor(a) ==
    Obj([name |-> Get(a, "name"),
         birth_year |-> Coalesce(Get(a, "birth_year"), Null),
         death_year |-> Coalesce(Get(a, "death_year"), Null)])

\* b => ({id, title, authors, languages, download_count ?? 0, formats ?? {}})
PageBook(b) ==
    Obj([id |-> Get(b, "id"),
         title |-> Get(b, "title"),
         authors |->
             IF Get(b, "authors").t = "array"
             THEN Arr([i \in DOMAIN Get(b, "authors").v |->
                          PageAuthor(Get(b, "authors").v[i])])
             ELSE Arr(<<>>),
         languages |->
             IF Get(b, "languages").t = "array" THEN Get(b, "languages")
             ELSE Arr(<<>>),
         download_count |-> Coalesce(Get(b, "download_count"), Num(0, 0)),
         formats |-> Coalesce(Get(b, "formats"), Obj(<<>>))])

\* Array.isArray(data?.results) ? data.results : []
PageResults(data) ==
    IF Get(data, "results").t = "array" THEN Get(data, "results").v ELSE <<>>

\* b.id on a null or undefined record, a.name on a null or undefined author
PageThrows(data) ==
    \E i \in DOMAIN PageResults(data) :
        LET b == PageResults(data)[i]
        IN  \/ Nullish(b)
            \/ /\ Get(b, "authors").t = "array"
               /\ \E j \in DOMAIN Get(b, "authors").v :
                      Nullish(Get(b, "authors").v[j])

PageMapped(data) ==
    [i \in DOMAIN PageResults(data) |-> PageBook(PageResults(data)[i])]

\* A page whose count is the number of records on it.
PageCount_Length(data) == Num(Len(PageMapped(data)), 0)

\* data?.count ?? mapped.length
PageCount(data) ==
    Coalesce(Get(data, "count"), Num(Len(PageMapped(data)), 0))

\* fetchPage from `await fetch(url)` on, for the response `up` (status 0: the
\* fetch itself failed): the error caught, or the fields of the new page.
PageLoad(up) ==
    IF up.status = 0
    THEN [threw |-> TRUE, error |-> Str(<<"TypeError: Failed to fetch">>)]
    ELSE IF ~(up.status \in 200..299)
    THEN [threw |-> TRUE,
          error |-> Str(<<"Error: HTTP ">> \o String(Num(up.status, 0)))]
    ELSE IF up.body.t = "text"
    THEN [threw |-> TRUE, error |-> Str(<<"SyntaxError">>)]
    ELSE IF PageThrows(up.body)
    THEN [threw |-> TRUE, error |-> Str(<<"TypeError">>)]
    ELSE [threw |-> FALSE, error |-> Null,
          results |-> Arr(PageMapped(up.body)),
          count |-> PageCount(up.body),
          next |-> Coalesce(Get(up.body, "next"), Null),
          previous |-> Coalesce(Get(up.body, "previous"), Null)]

\* useState initialiser: the state built from the tool output.
AppState(initial) ==
    [results |-> Coalesce(Get(initial, "results"), Arr(<<>>)),
     count |-> Coalesce(Get(initial, "count"), Num(0, 0)),
     next |-> Coalesce(Get(initial, "next"), Null),
     previous |-> Coalesce(Get(initial, "previous"), Null),
     query |-> Coalesce(Get(initial, "query"), Obj(<<>>)),
     loading |-> FALSE,
     loadingWhich |-> Null,
     error |-> Null]

\* A fetch that has not settled.  ref: inFlight.current is its controller.
Fetch(url, ref) == [url |-> url, aborted |-> FALSE, ref |-> ref]

\* What the last step of the widget did.
\*   event  "mount" | "props" | "ignored" | "started" | "settled" | "aborted"
\*   which  the button clicked; up: the response a fetch settled with
Did(event, which, up) == [event |-> event, which |-> which, up |-> up]

\* Tool outputs the host hands to the widget; the last is none at all, for
\* which useWidgetProps returns its default.
ToolOutputs ==
    <<Get(ToolResult([search |-> Str(<<"alice">>)], CallUpstreams[2].body),
          "structuredContent"),
      Get(ToolResult([pageUrl |-> PageTwo], CallUpstreams[6].body),
          "structuredContent"),
      Obj([results |-> Arr(<<>>), count |-> Num(0, 0)])>>

\* Responses to the GET of a page link; the last is a fetch that fails.
PageUpstreams == CallUpstreams \o <<[status |-> 0, body |-> Undef]>>

\* state.next / state.previous
Target(state, which) == IF which = "next" THEN state.next ELSE state.previous

\* Buttons that stay enabled while a page loads.
NavDisabled_TargetOnly(which) == Falsy(Target(app.state, which))

\* disabled={!state.previous || state.loading}, disabled={!state.next || ...}
NavDisabled(which) ==
    Falsy(Target(app.state, which)) \/ app.state.loading

\* fetchPage up to its first await: nothing for an empty url; otherwise (in
\* part_000) the controller in inFlight.current is aborted and replaced,
\* loading is set and the GET is sent.
fetchPage(url, which) ==
    IF Falsy(url) THEN app
    ELSE LET abortable == app.build = "part_000"
             earlier == [i \in DOMAIN app.fetches |->
                            IF abortable /\ app.fetches[i].ref
                            THEN [app.fetches[i] EXCEPT !.aborted = TRUE,
                                                        !.ref = FALSE]
                            ELSE app.fetches[i]]
         IN  [app EXCEPT
                 !.fetches = Append(earlier, Fetch(url, abortable)),
                 !.inFlight = abortable,
                 !.state = [@ EXCEPT !.loading = TRUE,
                                     !.loadingWhich =
                                         IF abortable THEN Str(<<which>>) ELSE Null,
                                     !.error = Null]]

\* onNavigate(which)
onNavigate(which) ==
    IF app.build = "part_000" /\ app.state.loading THEN app
    ELSE IF Falsy(Target(app.state, which)) THEN app
    ELSE fetchPage(Target(app.state, which), which)

\* The widget is mounted with tool output p.
Mount(build, p) ==
    [mounted |-> TRUE, build |-> build, props |-> p,
     state |-> AppState(ToolOutputs[p]), inFlight |-> FALSE, fetches |-> <<>>,
     last |-> Did("mount", "", 0)]

\* The user clicks the Previous or the Next button; a disabled button
\* dispatches no click.
Click(which) ==
    /\ app.mounted
    /\ LET after == IF NavDisabled(which) THEN app ELSE onNavigate(which)
       IN  /\ Len(after.fetches) <= MaxLive
           /\ app' = [after EXCEPT !.last =
                         Did(IF after.fetches = app.fetches THEN "ignored"
                             ELSE "started", which, 0)]
    /\ UNCHANGED <<sessions, nextId, stream, closing, reqs, dispatched, lastDone,
                   phase, registry>>

\* The fetch at position i settles: with an AbortError when its signal was
\* aborted, otherwise with response u; fetchPage runs to its end.
Settle(i, u) ==
    /\ app.mounted
    /\ i \in DOMAIN app.fetches
    /\ LET rest == [j \in 1..(Len(app.fetches) - 1) |->
                       IF j < i THEN app.fetches[j] ELSE app.fetches[j + 1]]
           load == PageLoad(PageUpstreams[u])
       IN  IF app.fetches[i].aborted
           THEN app' = [app EXCEPT !.fetches = rest,
                                   !.last = Did("aborted", "", 0)]
           ELSE app' = [app EXCEPT
                   !.fetches = rest,
                   !.last = Did("settled", "", u),
                   !.state =
                       IF load.threw
                       THEN [@ EXCEPT !.loading = FALSE, !.loadingWhich = Null,
                                      !.error = load.error]
                       ELSE [@ EXCEPT !.results = load.results,
                                      !.count = load.count,
                                      !.next = load.next,
                                      !.previous = load.previous,
                                      !.loading = FALSE,
                                      !.loadingWhich = Null,
                                      !.error = Null]]
    /\ UNCHANGED <<sessions, nextId, stream, closing, reqs, dispatched, lastDone,
                   phase, registry>>

\* The host hands the widget another tool output: the effect copies its
\* results, count, links and query into the state.
SyncProps(p) ==
    /\ app.mounted
    /\ p # app.props
    /\ LET fresh == AppState(ToolOutputs[p])
       IN  app' = [app EXCEPT
               !.props = p,
               !.last = Did("props", "", 0),
               !.state = [@ EXCEPT !.results = fresh.results,
                                   !.count = fresh.count,
                                   !.next = fresh.next,
                                   !.previous = fresh.previous,
                                   !.query = fresh.query]]
    /\ UNCHANGED <<sessions, nextId, stream, closing, reqs, dispatched, lastDone,
                   phase, registry>>

\* The server is serving; the widget is mounted with one of the tool outputs.
WidgetInit ==
    /\ phase = "listening"
    /\ registry = Registry(WidgetHtml)
    /\ sessions = <<>>
    /\ nextId = 1
    /\ stream = [i \in SessionIds |-> "none"]
    /\ closing = [running |-> FALSE, sessionId |-> 0, calls |-> 0]
    /\ reqs = <<>>
    /\ dispatched = [i \in SessionIds |-> <<>>]
    /\ lastDone = NoExchange
    /\ \E build \in Builds, p \in DOMAIN ToolOutputs : app = Mount(build, p)

WidgetNext ==
    \/ \E which \in {"previous", "next"} : Click(which)
    \/ \E i \in 1..MaxLive, u \in DOMAIN PageUpstreams : Settle(i, u)
    \/ \E p \in DOMAIN ToolOutputs : SyncProps(p)

WidgetSpec == WidgetInit /\ [][WidgetNext]_vars

\* The browser settles every fetch it has started: with a response, with a
\* failure or with the abort.
WidgetFairSpec ==
    WidgetSpec /\ WF_vars(\E i \in 1..MaxLive, u \in DOMAIN PageUpstreams : Settle(i, u))

\* ------------------------------------------------------------------ claims
LastReq == Len(reqs)

Forwarded(r) == \E t \in SessionIds : \E k \in DOMAIN dispatched[t] : dispatched[t][k] = r

FetchingOn(t) == \E r \in DOMAIN reqs : reqs[r].pc = "fetching" /\ reqs[r].to = t

C3_ReleasedOnce == closing.calls <= 1

C5_ErrorTearsDown ==
    lastDone.event = "unreadable" => ~MapHas(sessions, lastDone.to)

\* C6 (as claimed): the requests of one session are handed to its server in
\* the order in which their POSTs arrived.
C6_ArrivalOrder ==
    \A t \in SessionIds : \A i, j \in DOMAIN dispatched[t] :
        i < j => dispatched[t][i] < dispatched[t][j]

\* C7: while a tool call of session a is suspended at its upstream fetch, the
\* server takes a POST for any other open session b and routes it to b, and
\* hands b's messages whose body is read to b's server.
C7_NoCrossSessionBlocking ==
    \A a, b \in SessionIds :
        a # b /\ FetchingOn(a) /\ stream[b] = "open" /\ ~closing.running =>
            /\ Len(reqs) < MaxPosts =>
                   ENABLED (/\ handlePostMessage(TRUE, b)
                            /\ reqs'[Len(reqs')].pc = "reading"
                            /\ reqs'[Len(reqs')].to = b)
            /\ \A r \in DOMAIN reqs :
                   reqs[r].pc = "reading" /\ reqs[r].to = b =>
                       ENABLED BodyRead(r, 1)

C7_Witness ==
    \E a, b \in SessionIds :
        /\ a # b
        /\ FetchingOn(a)
        /\ lastDone.event = "response"
        /\ lastDone.to = b
        /\ lastDone.written

\* A step in which a request handler fails.
HandlerFails ==
    /\ lastDone'.event = "response"
    /\ lastDone'.resp.kind = "error"

\* C8: a step in which a request handler fails (unknown tool, unknown
\* resource, invalid arguments, upstream failure) leaves the session table and
\* every stream as they were, finishes no other request, and the session of
\* the failed request, if registered, stays registered.
C8_FailureIsLocal ==
    [][HandlerFails =>
          /\ sessions' = sessions
          /\ stream' = stream
          /\ closing' = closing
          /\ \A r \in DOMAIN reqs :
                 reqs'[r] # reqs[r] => reqs[r].to = lastDone'.to
          /\ Cardinality({r \in DOMAIN reqs : reqs'[r] # reqs[r]}) = 1]_vars

C8_Witness ==
    /\ lastDone.event = "response"
    /\ lastDone.resp.kind = "error"
    /\ lastDone.fetched
    /\ MapHas(sessions, lastDone.to)
    /\ \E b \in SessionIds : b # lastDone.to /\ MapHas(sessions, b)

\* An argument bag the claim calls invalid: a sort outside the three values,
\* or a year bound or page that is a number but not an integer.
BadArguments(bag) ==
    \/ /\ "sort" \in DOMAIN bag
       /\ bag.sort.t = "string"
       /\ bag.sort.v \notin {<<"popular">>, <<"ascending">>, <<"descending">>}
    \/ \E f \in {"author_year_start", "author_year_end", "page"} :
           f \in DOMAIN bag /\ bag[f].t = "number" /\ bag[f].v[2] # 0

\* C9: a tools/call of the search tool with such a bag fails with the
\* parser's error without any upstream GET, and no request suspended at a
\* fetch carries such a bag.
C9_InvalidArgsNoFetch ==
    /\ /\ lastDone.event = "response"
       /\ lastDone.msg.method = "tools/call"
       /\ lastDone.msg.name = SearchToolName
       /\ lastDone.msg.hasArgs
       /\ BadArguments(lastDone.msg.arguments)
       => /\ lastDone.resp.kind = "error"
          /\ lastDone.resp.error.msg = "ZodError"
          /\ lastDone.gets = 0
          /\ ~lastDone.fetched
    /\ \A r \in DOMAIN reqs :
           reqs[r].pc = "fetching" => ~BadArguments(reqs[r].args)
    /\ lastDone.fetched => ~BadArguments(lastDone.args)

C9_Witness ==
    /\ lastDone.event = "response"
    /\ lastDone.msg.hasArgs
    /\ Arg(lastDone.msg.arguments, "sort") = Str(<<"sideways">>)
    /\ lastDone.resp.error.msg = "ZodError"
    /\ lastDone.gets = 0

\* C10: a tool call whose upstream GET returned a status outside 200..299
\* fails with an error carrying that status; resp.json() is not called, the
\* shaping code does not run and the response holds no result.
C10_UpstreamErrorNoResult ==
    lastDone.fetched /\ ~(lastDone.upstream \in 200..299) =>
        /\ lastDone.resp.kind = "error"
        /\ lastDone.resp.error.msg = "Gutendex request failed"
        /\ lastDone.resp.error.status = lastDone.upstream
        /\ ~lastDone.parsed
        /\ ~lastDone.shaped
        /\ Get(lastDone.resp.result, "structuredContent") = Undef

C10_Witness ==
    /\ lastDone.fetched
    /\ lastDone.upstream = 503
    /\ lastDone.resp.kind = "error"
    /\ lastDone.written

\* The exchange completed by the last step is the response to a call of the
\* search tool.
SearchCallDone ==
    /\ lastDone.event = "response"
    /\ lastDone.msg.method = "tools/call"
    /\ lastDone.msg.name = SearchToolName

\* The argument bag of the call as the client sent it.
RawBag == ArgumentsOf(lastDone.msg)

\* result.structuredContent of the response
Structured == Get(lastDone.resp.result, "structuredContent")

\* The upstream response the call received.
UpstreamSeen == [status |-> lastDone.upstream, body |-> lastDone.payload]

\* What the call would have answered had its bag carried the page URL alone.
PageUrlAlone == CallToolFinish([pageUrl |-> RawBag.pageUrl], UpstreamSeen).resp

\* C11 (as claimed): every call whose bag carries a non-empty pageUrl requests
\* exactly that URL, and its outcome is the one of a call carrying that
\* pageUrl alone, whatever the other fields hold.
C11_PageUrlAlone ==
    SearchCallDone /\ HasPageUrl(RawBag) =>
        /\ lastDone.fetched
        /\ lastDone.url = [base |-> RawBag.pageUrl.v, params |-> <<>>]
        /\ lastDone.resp = PageUrlAlone

\* C11 (amended): every call whose bag passes validation and carries a
\* non-empty pageUrl issues its one GET to exactly that URL, with no parameter
\* taken from the other fields, and answers as a call carrying that pageUrl
\* alone would: the same error, or the same count, next, previous and
\* results; the query it echoes is its own validated bag.
C11_ValidPageUrlAlone ==
    /\ \A r \in DOMAIN reqs :
           reqs[r].pc = "fetching" /\ HasPageUrl(ArgumentsOf(reqs[r].msg)) =>
               reqs[r].url = [base |-> ArgumentsOf(reqs[r].msg).pageUrl.v,
                              params |-> <<>>]
    /\ SearchCallDone /\ lastDone.fetched /\ HasPageUrl(RawBag) =>
           /\ lastDone.gets = 1
           /\ lastDone.url = [base |-> RawBag.pageUrl.v, params |-> <<>>]
           /\ lastDone.resp.kind = PageUrlAlone.kind
           /\ lastDone.resp.error = PageUrlAlone.error
           /\ lastDone.resp.kind = "result" =>
                  /\ \A k \in {"count", "next", "previous", "results"} :
                         Get(Structured, k) =
                             Get(Get(PageUrlAlone.result, "structuredContent"), k)
                  /\ Get(Structured, "query") = Obj(lastDone.args)

C11_Witness ==
    /\ SearchCallDone
    /\ lastDone.fetched
    /\ Arg(RawBag, "pageUrl") = PageTwo
    /\ Arg(RawBag, "search") = Str(<<"alice">>)
    /\ Arg(RawBag, "page") = Num(3, 0)
    /\ lastDone.url.base = PageTwo.v
    /\ lastDone.resp.kind = "result"
    /\ Get(Structured, "count") = Num(77, 0)

ParamNames == {ParamOrder[i] : i \in DOMAIN ParamOrder}

ParamKeys(url) == {url.params[i].key : i \in DOMAIN url.params}

\* The fields of a bag that are present, non-null and not the empty string.
NonEmptyFields(bag) ==
    {f \in ParamNames \cap DOMAIN bag :
        ~Nullish(bag[f]) /\ bag[f] # Str(<<>>)}

\* The fields of a bag that are present, non-null and, for a string, not
\* empty once the surrounding whitespace is removed.
NonBlankFields(bag) ==
    {f \in ParamNames \cap DOMAIN bag :
        /\ ~Nullish(bag[f])
        /\ bag[f].t = "string" => Trim(bag[f].v) # <<>>}

\* The value a field of the bag is sent with: a string without its
\* surrounding whitespace, an integer in decimal.
SentValue(x) == IF x.t = "string" THEN Trim(x.v) ELSE <<ToString(x.v[1])>>

\* C12 (as claimed): the URL requested for a bag without pageUrl carries as
\* parameters exactly the fields of the bag that are present, non-null and
\* non-empty, and no parameter with an empty value.
C12_ExactlyNonEmpty ==
    SearchCallDone /\ lastDone.fetched /\ "pageUrl" \notin DOMAIN RawBag =>
        /\ ParamKeys(lastDone.url) = NonEmptyFields(RawBag)
        /\ \A i \in DOMAIN lastDone.url.params :
               lastDone.url.params[i].value # <<>>

\* The parameters of `url` are those of the non-blank fields of `bag`, each
\* once, under the field's own name, with the field's value, in the order of
\* ParamOrder, on the search endpoint.
ParamsMatch(bag, url) ==
    /\ url.base = BaseUrl
    /\ ParamKeys(url) = NonBlankFields(bag)
    /\ Len(url.params) = Cardinality(NonBlankFields(bag))
    /\ \A i \in DOMAIN url.params :
           /\ url.params[i].value = SentValue(bag[url.params[i].key])
           /\ url.params[i].value # <<>>
    /\ \A i, j \in DOMAIN url.params :
           i < j => \E a, b \in DOMAIN ParamOrder :
                        /\ a < b
                        /\ ParamOrder[a] = url.params[i].key
                        /\ ParamOrder[b] = url.params[j].key

\* C12 (amended): the URL requested for a bag without pageUrl carries as
\* parameters exactly the fields of the bag that are present, non-null and
\* still non-empty after validation has trimmed them, each under its own
\* name, and no parameter with an empty value.
C12_ExactlyNonBlank ==
    /\ \A r \in DOMAIN reqs :
           /\ reqs[r].pc = "fetching"
           /\ "pageUrl" \notin DOMAIN ArgumentsOf(reqs[r].msg)
           => ParamsMatch(ArgumentsOf(reqs[r].msg), reqs[r].url)
    /\ SearchCallDone /\ lastDone.fetched /\ "pageUrl" \notin DOMAIN RawBag =>
           ParamsMatch(RawBag, lastDone.url)

C12_Witness ==
    /\ SearchCallDone
    /\ lastDone.fetched
    /\ Arg(RawBag, "search") = Str(<<>>)
    /\ Arg(RawBag, "topic") = Str(<<"children">>)
    /\ lastDone.url = [base |-> BaseUrl,
                       params |-> <<[key |-> "topic", value |-> <<"children">>]>>]

\* The upstream request of the completed call failed: a status outside
\* 200..299, or a body that is not JSON.
UpstreamFailed ==
    \/ lastDone.upstream \notin 200..299
    \/ lastDone.payload.t = "text"

\* C13: a tool call has issued no GET before its arguments are accepted and
\* exactly one, to the one URL built from them, while it waits for upstream
\* and when it completes; when the upstream request fails, the call completes
\* with that error after this single GET.
C13_OneGetNoRetry ==
    /\ \A r \in DOMAIN reqs :
           /\ reqs[r].gets = IF reqs[r].pc = "fetching" THEN 1 ELSE 0
           /\ reqs[r].pc = "fetching" => reqs[r].url = FetchUrl(reqs[r].args)
    /\ lastDone.gets = IF lastDone.fetched THEN 1 ELSE 0
    /\ lastDone.fetched =>
           /\ SearchCallDone
           /\ lastDone.url = FetchUrl(lastDone.args)
           /\ UpstreamFailed =>
                  /\ lastDone.resp.kind = "error"
                  /\ lastDone.resp.error.msg \in
                         {"Gutendex request failed", "SyntaxError"}

C13_Witness ==
    /\ lastDone.fetched
    /\ lastDone.upstream = 200
    /\ lastDone.payload.t = "text"
    /\ lastDone.resp.error.msg = "SyntaxError"
    /\ lastDone.gets = 1
    /\ \A r \in DOMAIN reqs : reqs[r].pc = "done"

\* The shaping rules applied to the structured payload of the response.
Reshaped == Get(ToolResult(lastDone.args, Structured), "structuredContent")

\* C14: shaping the structured payload of a successful call once more raises
\* no error and yields that same payload: the same results record by record
\* and the same count, next and previous.
C14_ShapeIdempotent ==
    SearchCallDone /\ lastDone.resp.kind = "result" =>
        /\ ~MapThrows(Structured)
        /\ Reshaped = Structured

C14_Witness ==
    /\ SearchCallDone
    /\ lastDone.resp.kind = "result"
    /\ Get(lastDone.payload, "results") = Arr(<<DatedBook, OddBook>>)
    /\ Len(Get(Structured, "results").v) = 2
    /\ Structured # lastDone.payload
    /\ Reshaped = Structured

\* C15 (as claimed): whenever the upstream body parses as JSON, shaping
\* raises no error and the call returns an envelope: a structured payload
\* whose results are a list.
C15_ShaperTotal ==
    /\ SearchCallDone
    /\ lastDone.fetched
    /\ lastDone.upstream \in 200..299
    /\ lastDone.payload.t # "text"
    => /\ lastDone.resp.kind = "result"
       /\ Get(Structured, "results").t = "array"

\* The upstream payload has no results field.
NoResultsField ==
    lastDone.payload.t = "object" => "results" \notin DOMAIN lastDone.payload.v

\* The upstream payload has a count field.
HasCountField ==
    lastDone.payload.t = "object" /\ "count" \in DOMAIN lastDone.payload.v

\* C16 (as claimed): for a payload without a results field the shaped
\* sequence is empty and the count is the payload's count field when the
\* payload has one, 0 otherwise; whenever the payload has no count field the
\* count is the length of the shaped sequence.
C16_CountWhenPresent ==
    SearchCallDone /\ lastDone.resp.kind = "result" =>
        /\ NoResultsField =>
               /\ Get(Structured, "results") = Arr(<<>>)
               /\ Get(Structured, "count") =
                      IF HasCountField THEN lastDone.payload.v.count
                      ELSE Num(0, 0)
        /\ ~HasCountField =>
               Get(Structured, "count") =
                   Num(Len(Get(Structured, "results").v), 0)

\* C16 (amended): the same with a null count treated as a missing one: the
\* count is the payload's count field when that field is present and not
\* null, and otherwise the length of the shaped sequence, which is 0 for a
\* payload without a results field.
C16_CountWhenNotNull ==
    SearchCallDone /\ lastDone.resp.kind = "result" =>
        LET raw == Get(lastDone.payload, "count")
            shaped == Get(Structured, "results")
        IN  /\ shaped.t = "array"
            /\ NoResultsField => shaped = Arr(<<>>)
            /\ Get(Structured, "count") =
                   IF Nullish(raw) THEN Num(Len(shaped.v), 0) ELSE raw

C16_Witness ==
    /\ SearchCallDone
    /\ lastDone.resp.kind = "result"
    /\ lastDone.payload = Obj([count |-> Num(5, 0)])
    /\ Get(Structured, "results") = Arr(<<>>)
    /\ Get(Structured, "count") = Num(5, 0)

BookFields == {"id", "title", "authors", "languages", "download_count", "formats"}

AuthorFields == {"name", "birth_year", "death_year"}

\* `a` is the author record the envelope holds for the upstream author `up`.
AuthorShaped(a, up) ==
    /\ a.t = "object"
    /\ DOMAIN a.v = AuthorFields
    /\ a.v.name = Get(up, "name")
    /\ \A k \in {"birth_year", "death_year"} :
           a.v[k] = IF Nullish(Get(up, k)) THEN Null ELSE Get(up, k)

\* `b` is the Book record the envelope holds for the upstream record `up`.
BookShaped(b, up) ==
    /\ b.t = "object"
    /\ DOMAIN b.v = BookFields
    /\ b.v.id = Get(up, "id")
    /\ b.v.title = Get(up, "title")
    /\ b.v.authors.t = "array"
    /\ IF Get(up, "authors").t = "array"
       THEN /\ Len(b.v.authors.v) = Len(Get(up, "authors").v)
            /\ \A j \in DOMAIN b.v.authors.v :
                   AuthorShaped(b.v.authors.v[j], Get(up, "authors").v[j])
       ELSE b.v.authors = Arr(<<>>)
    /\ b.v.languages =
           IF Get(up, "languages").t = "array" THEN Get(up, "languages")
           ELSE Arr(<<>>)
    /\ b.v.download_count =
           IF Nullish(Get(up, "download_count")) THEN Num(0, 0)
           ELSE Get(up, "download_count")
    /\ b.v.formats =
           IF Nullish(Get(up, "formats")) THEN Obj(<<>>) ELSE Get(up, "formats")

\* C17: the envelope of a successful call holds one Book record per upstream
\* record, in order, each with the six fields: id and title as upstream,
\* authors a list (empty unless upstream gives a list) whose entries carry
\* name, birth_year and death_year with null for a missing year, languages
\* the upstream list or an empty list, download_count the upstream value or
\* 0, formats the upstream value or an empty mapping.
C17_BookDefaults ==
    SearchCallDone /\ lastDone.resp.kind = "result" =>
        LET books == Get(Structured, "results")
            raw == Get(lastDone.payload, "results")
        IN  /\ books.t = "array"
            /\ Len(books.v) = IF raw.t = "array" THEN Len(raw.v) ELSE 0
            /\ \A i \in DOMAIN books.v : BookShaped(books.v[i], raw.v[i])

C17_Witness ==
    /\ SearchCallDone
    /\ lastDone.resp.kind = "result"
    /\ Get(lastDone.payload, "results") = Arr(<<AliceBook, BareBook, DatedBook>>)
    /\ LET books == Get(Structured, "results").v
       IN  /\ books[1].v.authors.v[1].v.birth_year = Null
           /\ books[2].v.authors = Arr(<<>>)
           /\ books[2].v.languages = Arr(<<>>)
           /\ books[2].v.download_count = Num(0, 0)
           /\ books[2].v.formats = Obj(<<>>)
           /\ books[3].v.authors.v[1].v.death_year = Num(1817, 0)
           /\ books[3].v.authors.v[2].v.death_year = Null

\* C18: the result of a successful search call holds one text item reading
\* "Found N books" with N the count of its structured payload, a structured
\* payload made of the validated arguments as query, count, next and previous
\* (null when upstream gives none) and the results, and the metadata block
\* the tool catalog advertises for the search tool.
C18_SummaryMatchesCount ==
    SearchCallDone /\ lastDone.resp.kind = "result" =>
        LET result == lastDone.resp.result
            count == Get(Structured, "count")
        IN  /\ DOMAIN result.v = {"content", "structuredContent", "meta"}
            /\ Len(result.v.content) = 1
            /\ result.v.content[1].type = "text"
            /\ result.v.content[1].text =
                   <<"Found ">> \o String(count) \o <<" books">>
            /\ DOMAIN Structured.v =
                   {"query", "count", "next", "previous", "results"}
            /\ Get(Structured, "query") = Obj(searchInputParser(RawBag).data)
            /\ \A k \in {"next", "previous"} :
                   Get(Structured, k) =
                       IF Nullish(Get(lastDone.payload, k)) THEN Null
                       ELSE Get(lastDone.payload, k)
            /\ Get(Structured, "results").t = "array"
            /\ \E i \in DOMAIN tools :
                   /\ tools[i].name = lastDone.msg.name
                   /\ result.v.meta = tools[i].meta

C18_Witness ==
    /\ SearchCallDone
    /\ lastDone.resp.kind = "result"
    /\ RawBag = [search |-> Str(<<" ", "alice", " ">>)]
    /\ Get(lastDone.payload, "count") = Num(77, 0)
    /\ lastDone.resp.result.v.content[1].text = <<"Found ", "77", " books">>
    /\ Get(Structured, "query") = Obj([search |-> Str(<<"alice">>)])
    /\ Len(Get(Structured, "results").v) = 3

\* The uris of the resource catalog.
ResourceUris == {resources[i].uri : i \in DOMAIN resources}

\* The tools whose metadata block names `uri` as their output template.
ToolsRendering(uri) ==
    {i \in DOMAIN tools : tools[i].meta.outputTemplate = uri}

\* C19: reading a uri outside the resource catalog fails with the not-found
\* error; reading a uri of the catalog returns one content item with that
\* uri, the markup stored for it and a metadata block equal to the one of the
\* catalog entry and to the one of every tool that names the uri as its
\* output template; and the result of a call of such a tool carries the
\* tool's metadata block.
C19_ReadResource ==
    /\ lastDone.event = "response" /\ lastDone.msg.method = "resources/read" =>
           IF lastDone.msg.uri \notin ResourceUris
           THEN /\ lastDone.resp.kind = "error"
                /\ lastDone.resp.error.msg = "Unknown resource"
           ELSE /\ lastDone.resp.kind = "result"
                /\ Len(lastDone.resp.result.v.contents) = 1
                /\ LET item == lastDone.resp.result.v.contents[1]
                   IN  /\ item.uri = lastDone.msg.uri
                       /\ \E i \in DOMAIN widgets :
                              /\ widgets[i].templateUri = item.uri
                              /\ widgets[i].html = item.text
                       /\ \A i \in DOMAIN resources :
                              resources[i].uri = item.uri =>
                                  /\ resources[i].meta = item.meta
                                  /\ resources[i].mimeType = item.mimeType
                       /\ ToolsRendering(item.uri) # {}
                       /\ \A i \in ToolsRendering(item.uri) :
                              tools[i].meta = item.meta
    /\ SearchCallDone /\ lastDone.resp.kind = "result" =>
           \A i \in DOMAIN tools :
               tools[i].name = lastDone.msg.name =>
                   /\ lastDone.resp.result.v.meta = tools[i].meta
                   /\ tools[i].meta.outputTemplate \in ResourceUris

C19_Witness ==
    /\ lastDone.event = "response"
    /\ lastDone.msg.method = "resources/read"
    /\ lastDone.msg.uri = "ui://widget/gutendex-search.html"
    /\ lastDone.resp.kind = "result"
    /\ lastDone.resp.result.v.contents[1].text = "<gutendex-search.html>"
    /\ lastDone.written

\* Tool i of the catalog declares an output template.
DeclaresTemplate(i) == "outputTemplate" \in DOMAIN tools[i].meta

\* C20: in every state of the running server, the output template of every
\* tool of the tool catalog is a uri of the resource catalog and reading it
\* returns that resource; the catalog a session lists is that tool catalog,
\* and no request fails at call time for a template that is missing: a read
\* of a tool's template succeeds and a call of a catalog tool fails only for
\* its arguments, the upstream response or a record the shaper cannot read.
C20_TemplatesResolvable ==
    /\ \A i \in DOMAIN tools :
           phase = "listening" /\ DeclaresTemplate(i) =>
               /\ tools[i].meta.outputTemplate \in ResourceUris
               /\ ReadResource(tools[i].meta.outputTemplate).kind = "result"
               /\ ReadResource(tools[i].meta.outputTemplate).result.v.contents[1].uri
                      = tools[i].meta.outputTemplate
    /\ lastDone.event = "response" /\ lastDone.msg.method = "tools/list" =>
           /\ lastDone.resp.kind = "result"
           /\ lastDone.resp.result.v.tools = tools
    /\ /\ lastDone.event = "response"
       /\ lastDone.msg.method = "resources/read"
       /\ \E i \in DOMAIN tools :
              DeclaresTemplate(i) /\ tools[i].meta.outputTemplate = lastDone.msg.uri
       => lastDone.resp.kind = "result"
    /\ SearchCallDone /\ lastDone.resp.kind = "error" =>
           \/ lastDone.resp.error.msg = "ZodError" /\ ~lastDone.fetched
           \/ lastDone.fetched /\ UpstreamFailed
           \/ lastDone.fetched /\ MapThrows(lastDone.payload)

C20_Witness ==
    /\ lastDone.event = "response"
    /\ lastDone.msg.method = "tools/list"
    /\ lastDone.written
    /\ \A i \in DOMAIN lastDone.resp.result.v.tools :
           lastDone.resp.result.v.tools[i].meta.outputTemplate \in ResourceUris
    /\ \E r \in DOMAIN reqs : reqs[r].pc = "fetching"

\* Every widget of the registry holds a template that was read from a file,
\* and the catalogs are the ones built over that template.
TemplatesLoaded ==
    /\ DOMAIN registry.widgets = DOMAIN widgets
    /\ \A i \in DOMAIN registry.widgets : registry.widgets[i].html # ""
    /\ registry = Registry(registry.widgets[1].html)

\* No connection was accepted: no session, no stream, no POST, no exchange.
NothingServed ==
    /\ sessions = <<>>
    /\ nextId = 1
    /\ \A i \in SessionIds : stream[i] = "none"
    /\ reqs = <<>>
    /\ lastDone = NoExchange

\* C21: the process serves only with every template loaded; until it serves
\* it has accepted no connection; a process left without its template by
\* the load has exited without having served anything, and takes no further
\* step; and a step that opens a session or takes a POST is a step of the
\* serving process with its templates loaded.
C21_LoadBeforeListen ==
    /\ [](phase = "listening" => TemplatesLoaded)
    /\ [](phase = "loading" => registry = NoRegistry /\ NothingServed)
    /\ [](registry = NoRegistry /\ phase # "loading" =>
             phase = "exited" /\ NothingServed)
    /\ [][~(registry = NoRegistry /\ phase = "exited")]_vars
    /\ [][nextId' # nextId \/ Len(reqs') # Len(reqs) =>
             phase = "listening" /\ TemplatesLoaded]_vars

C21_Witness ==
    /\ phase = "exited"
    /\ registry = NoRegistry
    /\ NothingServed

\* The last step answered, from the listener itself, a request with this
\* method on one of these paths.
Answered(methods, paths) ==
    /\ lastDone.event = "http"
    /\ lastDone.method \in methods
    /\ lastDone.target[1] \in paths

PreflightStep ==
    /\ lastDone'.event = "http"
    /\ lastDone'.method = "OPTIONS"
    /\ lastDone'.target[1] \in {ssePath, postPath}

\* C22: an OPTIONS request on the stream path or the message path is
\* answered 204 with Access-Control-Allow-Origin "*",
\* Access-Control-Allow-Methods "GET, POST, OPTIONS" and
\* Access-Control-Allow-Headers "content-type" and with no body; the step
\* that answers it opens no session, takes no POST, hands no message to a
\* server and leaves the session table and every stream as they were.
C22_Preflight ==
    /\ [](Answered({"OPTIONS"}, {ssePath, postPath}) =>
             /\ lastDone.status = StatusPreflight
             /\ DOMAIN lastDone.headers =
                    {"Access-Control-Allow-Origin", "Access-Control-Allow-Methods",
                     "Access-Control-Allow-Headers"}
             /\ lastDone.headers["Access-Control-Allow-Origin"] = "*"
             /\ lastDone.headers["Access-Control-Allow-Methods"]
                    = "GET, POST, OPTIONS"
             /\ lastDone.headers["Access-Control-Allow-Headers"] = "content-type"
             /\ lastDone.body = "")
    /\ [][PreflightStep =>
             /\ sessions' = sessions
             /\ nextId' = nextId
             /\ stream' = stream
             /\ reqs' = reqs
             /\ dispatched' = dispatched
             /\ phase' = phase]_vars

C22_Witness ==
    /\ Answered({"OPTIONS"}, {postPath})
    /\ lastDone.target = <<"/mcp/messages", "?", "sessionId=1">>
    /\ lastDone.status = StatusPreflight
    /\ MapHas(sessions, 1)
    /\ \E r \in DOMAIN reqs : reqs[r].pc = "reading" /\ reqs[r].sid = 1

\* The request lines the listener hands on or answers as a preflight.
Routed(method, path) ==
    \/ method = "GET" /\ path = ssePath
    \/ method = "POST" /\ path = postPath
    \/ method = "OPTIONS" /\ path \in {ssePath, postPath}

\* C23 (as claimed): every request whose method and path are none of GET on
\* the stream path, POST on the message path and OPTIONS on either is
\* answered 404, by a process that goes on serving.
C23_UnroutedNotFound ==
    lastDone.event = "http" /\ ~Routed(lastDone.method, lastDone.target[1]) =>
        /\ lastDone.status = StatusNotFound
        /\ phase = "listening"

\* The names of the tool catalog the handlers read.
ToolNames == {registry.tools[i].name : i \in DOMAIN registry.tools}

ToolCallDone == lastDone.event = "response" /\ lastDone.msg.method = "tools/call"

\* C25: a tools/list request returns the tool catalog of the registry as it
\* was built, and nothing else; a tools/call naming a tool of that catalog
\* is executed: it fails with the parser's error or reaches the upstream
\* GET; a tools/call naming any other tool fails with the unknown-tool
\* error, whatever its arguments, with no upstream GET; and no request
\* suspended at a fetch names a tool outside the catalog.
C25_CatalogDispatch ==
    /\ lastDone.event = "response" /\ lastDone.msg.method = "tools/list" =>
           /\ lastDone.resp = Result(Obj([tools |-> tools]))
           /\ registry.tools = tools
    /\ ToolCallDone /\ lastDone.msg.name \in ToolNames =>
           /\ lastDone.resp.error.msg # "Unknown tool"
           /\ lastDone.fetched \/ lastDone.resp.error.msg = "ZodError"
    /\ ToolCallDone /\ lastDone.msg.name \notin ToolNames =>
           /\ lastDone.resp.kind = "error"
           /\ lastDone.resp.error.msg = "Unknown tool"
           /\ lastDone.gets = 0
           /\ ~lastDone.fetched
    /\ \A r \in DOMAIN reqs :
           reqs[r].pc = "fetching" => reqs[r].msg.name \in ToolNames

C25_Witness ==
    /\ ToolCallDone
    /\ lastDone.msg.name = "other.tool"
    /\ lastDone.msg.hasArgs
    /\ BadArguments(lastDone.msg.arguments)
    /\ lastDone.resp.error.msg = "Unknown tool"
    /\ lastDone.written
    /\ \E r \in DOMAIN reqs : reqs[r].pc = "fetching"

\* C26: once built, the registry is the one built at load for good: no step
\* of the server (a session opening, a message of any kind, an upstream
\* response, a close) changes the widget list, its two maps, the tool
\* catalog or the resource catalog, and every tools/list and resources/read
\* answered in any session at any time shows the catalog and the template
\* of that registry.
C26_RegistryImmutable ==
    /\ [][registry # NoRegistry => registry' = registry]_vars
    /\ [](registry # NoRegistry => registry = Registry(WidgetHtml))
    /\ [](lastDone.event = "response" /\ lastDone.msg.method = "tools/list" =>
             lastDone.resp.result.v.tools = Registry(WidgetHtml).tools)
    /\ [](/\ lastDone.event = "response"
          /\ lastDone.msg.method = "resources/read"
          /\ lastDone.resp.kind = "result"
          => \E i \in DOMAIN Registry(WidgetHtml).widgets :
                 /\ Registry(WidgetHtml).widgets[i].templateUri = lastDone.msg.uri
                 /\ Registry(WidgetHtml).widgets[i].html
                        = lastDone.resp.result.v.contents[1].text)

C26_Witness ==
    /\ lastDone.event = "response"
    /\ lastDone.msg.method = "tools/list"
    /\ lastDone.to = 2
    /\ lastDone.written
    /\ stream[1] = "closed"
    /\ dispatched[1] # <<>>
    /\ registry = Registry(WidgetHtml)

\* The response the last fetch of the widget settled with, and what the
\* CallTool handler of the server makes of the same response.
PageSeen == PageUpstreams[app.last.up]

ServerOn(up) == CallToolFinish(app.state.query.v, up)

\* C24: when a page fetch of the widget settles with a JSON payload of the
\* upstream service, the results, count, next and previous the widget then
\* holds are the ones the server's tool call puts into its structured
\* payload for that payload, and the widget holds no error; for a payload
\* on which the server's handler fails, the widget holds an error instead.
C24_SameShaping ==
    app.last.event = "settled" /\ gutendexFetch(PageSeen).ok =>
        LET server == ServerOn(PageSeen).resp
            structured == Get(server.result, "structuredContent")
        IN  IF server.kind = "result"
            THEN /\ app.state.results = Get(structured, "results")
                 /\ app.state.count = Get(structured, "count")
                 /\ app.state.next = Get(structured, "next")
                 /\ app.state.previous = Get(structured, "previous")
                 /\ app.state.error = Null
            ELSE app.state.error # Null

C24_Witness ==
    /\ app.last.event = "settled"
    /\ app.last.up = 3
    /\ app.props = 1
    /\ Len(app.state.results.v) = 2
    /\ app.state.count = Num(2, 0)
    /\ app.state.next = Null
    /\ app.state.query = Obj([search |-> Str(<<"alice">>)])
    /\ ~app.state.loading

\* The fetches of the widget that are neither settled nor aborted.
Live == {i \in DOMAIN app.fetches : ~app.fetches[i].aborted}

\* C27: the widget has at most one page fetch that is neither settled nor
\* aborted; a click on Previous or Next while a page loads, or whose link is
\* null, changes neither the state nor the fetches, and a fetch is started
\* only from a state that is not loading, for a link that is not null; a
\* step that starts a fetch leaves every earlier unsettled fetch aborted; an
\* aborted fetch settles without writing to the state; and, the browser
\* settling every fetch, whenever a fetch is live loading is false again
\* later.
C27_OneFetchAtATime ==
    /\ [](Cardinality(Live) <= 1)
    /\ [][\A which \in {"previous", "next"} :
              /\ app.state.loading \/ Falsy(Target(app.state, which))
              /\ Click(which)
              => /\ app'.state = app.state
                 /\ app'.fetches = app.fetches
                 /\ app'.last.event = "ignored"]_vars
    /\ [][app'.last.event = "started" /\ app'.fetches # app.fetches =>
              /\ ~app.state.loading
              /\ ~Falsy(Target(app.state, app'.last.which))
              /\ app'.fetches[Len(app'.fetches)].url
                     = Target(app.state, app'.last.which)
              /\ \A i \in 1..(Len(app'.fetches) - 1) : app'.fetches[i].aborted]_vars
    /\ [][\A i \in DOMAIN app.fetches :
              /\ app.fetches[i].aborted
              /\ \E u \in DOMAIN PageUpstreams : Settle(i, u)
              => app'.state = app.state]_vars
    /\ [](Live # {} => <>(~app.state.loading))

C27_Witness ==
    /\ app.last.event = "ignored"
    /\ app.last.which = "next"
    /\ app.state.loading
    /\ ~Falsy(app.state.next)
    /\ Cardinality(Live) = 1

====
